---------------------------- MODULE Spec2Model ----------------------------
(***************************************************************************)
(* Index bookkeeping of ContextGNN's sampled softmax and of the MultiVAE   *)
(* benchmark driver:                                                       *)
(*   ContextGNN.sample_step / construct_logits   (contextgnn.py)           *)
(*   get_rhs_index / train / test / main         (relbench_multi_vae.py)   *)
(*                                                                         *)
(* Tensors are sequences (1-based in TLA+); the ids and positions they     *)
(* hold are the program's 0-based values.  An array indexed by id is a     *)
(* function over 0 .. len-1.  Embeddings have one channel.                 *)
(*                                                                         *)
(* Specifications:                                                         *)
(*   Spec        sample_step on ids of the catalog                         *)
(*   SpecOor     sample_step on ids that may lie outside the catalog       *)
(*   SpecFuse    forward: construct_logits over the whole catalog          *)
(*   SpecCsr     get_rhs_index on a CSR split                              *)
(*   SpecDriver  the batch loops of train and test                         *)
(*   SpecMain    main's epoch loop, checkpoint and early stopping          *)
(***************************************************************************)
EXTENDS Integers, Sequences, FiniteSets, TLC

(* ------------------------------ bounds --------------------------------- *)
\* num_rhs_nodes: size of the destination catalog
NumRhs == 3
\* longest rhs_y_index / rhs_idgnn_index array handed to one call
MaxLen == 2
\* number of seed (lhs) rows of one batch
BatchSize == 2
\* largest number of source rows of a split (task.num_src_nodes)
MaxSrc == 2

(* ------------------------ program constants ---------------------------- *)
\* rnd[rhs_idgnn_index] = 3.
PriorityValue == 3
\* rnd[rhs_y_index] = 4.
RequiredValue == 4

\* torch.rand draws floats in [0, 1); topk only compares them, so a draw is
\* modelled by its rank.  Every rank is below PriorityValue.
RandVals == {0, 1}
\* What a read of a torch.new_empty slot may return.
GarbageVals == {-1, 0, NumRhs}
\* Values of one (scalar) embedding channel.
Vals == {0, 1}

Cands == 0 .. (NumRhs - 1)
Rows == 0 .. (BatchSize - 1)

VARIABLES
    \* ContextGNN.sample_step
    rhs_sample_size,  \* self.rhs_sample_size, fixed at construction
    pc,               \* "off" | "idle" | "returned" | "raised"
    call,             \* the arguments of the sample_step call
    loc,              \* its locals: rhs_index, the inclusive flags, the masks
    ret,              \* what it returned
    \* ContextGNN.forward / construct_logits
    theta,            \* the learned parameters
    fpc,              \* "off" | "idle" | "done"
    fwd,              \* the encoder outputs of the batch and the logits returned
    \* relbench_multi_vae: get_rhs_index, train, test
    rowptr, col,      \* the CSR adjacency of the split
    dpc,              \* "off" | "idle" | "expanded" | "train" | "test" | "done"
    drv,              \* the locals of the running function
    \* relbench_multi_vae: main
    epochs,           \* args.epochs
    mpc,              \* "off" | "loop" | "stopped" | "exhausted" | "tested" | "raised"
    epoch,            \* the loop variable; 0 before the first iteration
    best_val_map,     \* in units of 0.001
    val_maps,         \* the val_map that test returned in each epoch so far
    model,            \* the object bound to `model`: which run trained it, how long
    model_file        \* the content of model_filename: <<>> or one pickled model

vars ==
    <<rhs_sample_size, pc, call, loc, ret, theta, fpc, fwd, rowptr, col, dpc, drv,
      epochs, mpc, epoch, best_val_map, val_maps, model, model_file>>

mainVars == <<epochs, mpc, epoch, best_val_map, val_maps, model, model_file>>

samplerVars == <<rhs_sample_size, pc, call, loc, ret>>

fuserVars == <<theta, fpc, fwd>>

driverVars == <<rowptr, col, dpc, drv>>

(* ----------------------------- helpers --------------------------------- *)
SeqsUpTo(S, n) == UNION {[1 .. m -> S] : m \in 0 .. n}

Range(s) == {s[i] : i \in DOMAIN s}

SetMax(S) == CHOOSE m \in S : \A x \in S : x <= m

\* Python / torch indexing of an array of length len: a negative index counts
\* from the end, anything outside [-len, len) raises IndexError.
IndexOk(i, len) == (0 - len) <= i /\ i < len

WrapIndex(i, len) == IF i < 0 THEN i + len ELSE i

\* t[mask] for a boolean mask of t's length
Masked(t, mask) ==
    LET F[i \in 0 .. Len(t)] ==
            IF i = 0 THEN <<>>
            ELSE IF mask[i] THEN Append(F[i - 1], t[i]) ELSE F[i - 1]
    IN F[Len(t)]

(* ------------------------- sample_step pieces -------------------------- *)
\* a[index] = v
IndexPut(a, len, index, v) ==
    [c \in 0 .. (len - 1) |->
        IF \E j \in DOMAIN index : WrapIndex(index[j], len) = c THEN v ELSE a[c]]

\* Mutant: the two writes in the other order, so an id of both sets keeps 3.
PrioritiesRequiredFirst(rnd, idgnn, y) ==
    IndexPut(IndexPut(rnd, NumRhs, y, RequiredValue), NumRhs, idgnn, PriorityValue)

\* Mutant: line 102 left out, the priority ids keep their random draw.
PrioritiesWithoutIdgnn(rnd, idgnn, y) ==
    IndexPut(rnd, NumRhs, y, RequiredValue)

\* The rnd array after lines 100-106.
Priorities(rnd, idgnn, y) ==
    IndexPut(IndexPut(rnd, NumRhs, idgnn, PriorityValue), NumRhs, y, RequiredValue)

\* Mutant: a draw with replacement, the chosen index stays available.
RECURSIVE TopKWithRepeats(_, _, _)
TopKWithRepeats(a, avail, k) ==
    IF k = 0 THEN {<<>>}
    ELSE UNION {{<<c>> \o s : s \in TopKWithRepeats(a, avail, k - 1)} :
                c \in {c \in avail : \A d \in avail : a[d] <= a[c]}}

\* Mutant: topk(largest=False).
RECURSIVE TopKSmallest(_, _, _)
TopKSmallest(a, avail, k) ==
    IF k = 0 THEN {<<>>}
    ELSE UNION {{<<c>> \o s : s \in TopKSmallest(a, avail \ {c}, k - 1)} :
                c \in {c \in avail : \A d \in avail : a[c] <= a[d]}}

\* rnd.topk(k, sorted=True).indices: every index sequence topk may return (the
\* order among equal values is unspecified).
RECURSIVE TopK(_, _, _)
TopK(a, avail, k) ==
    IF k = 0 THEN {<<>>}
    ELSE UNION {{<<c>> \o s : s \in TopK(a, avail \ {c}, k - 1)} :
                c \in {c \in avail : \A d \in avail : a[d] <= a[c]}}

\* map_index with max_index=None: torch.maximum(src.max(), index.max())
DefaultMaxIndex(src, index) == SetMax(Range(src) \cup Range(index))

\* The slots of map_index's helper vector that are read and never written;
\* with inclusive=True the vector is new_empty, so these reads are garbage.
UninitRead(src, index, max_index, inclusive) ==
    IF inclusive
    THEN {WrapIndex(src[i], max_index + 1) : i \in DOMAIN src} \ Range(index)
    ELSE {}

\* Mutant: positions counted from 1.
MapIndexOneBased(src, index, max_index, inclusive, g) ==
    LET len == max_index + 1
        assoc == [c \in 0 .. max_index |->
                    IF \E p \in DOMAIN index : index[p] = c
                    THEN CHOOSE p \in DOMAIN index : index[p] = c
                    ELSE IF inclusive THEN g[c] ELSE -1]
        out == [i \in DOMAIN src |-> assoc[WrapIndex(src[i], len)]]
        mask == [i \in DOMAIN src |-> out[i] # -1]
    IN  IF inclusive
        THEN [err |-> "none", out |-> out, mask |-> <<>>]
        ELSE [err |-> "none", out |-> Masked(out, mask), mask |-> mask]

\* Mutant: the masked path hands back the unfiltered positions.
MapIndexUnfiltered(src, index, max_index, inclusive, g) ==
    LET assoc == [c \in 0 .. max_index |->
                    IF \E p \in DOMAIN index : index[p] = c
                    THEN (CHOOSE p \in DOMAIN index : index[p] = c) - 1
                    ELSE IF inclusive THEN g[c] ELSE -1]
        out == [i \in DOMAIN src |-> assoc[WrapIndex(src[i], max_index + 1)]]
    IN  [err |-> "none", out |-> out,
         mask |-> IF inclusive THEN <<>> ELSE [i \in DOMAIN src |-> out[i] # -1]]

\* torch_geometric.utils.map.map_index(src, index, max_index, inclusive), helper
\* vector path.  g: the content of the uninitialised slots.
MapIndex(src, index, max_index, inclusive, g) ==
    LET len == max_index + 1
        assoc == [c \in 0 .. max_index |->
                    IF \E p \in DOMAIN index : index[p] = c
                    THEN (CHOOSE p \in DOMAIN index : index[p] = c
                              /\ \A q \in DOMAIN index : index[q] = c => q <= p) - 1
                    ELSE IF inclusive THEN g[c] ELSE -1]
        out == [i \in DOMAIN src |-> assoc[WrapIndex(src[i], len)]]
        mask == [i \in DOMAIN src |-> out[i] # -1]
    IN  IF \E i \in DOMAIN src : ~IndexOk(src[i], len)
        THEN [err |-> "IndexError", out |-> <<>>, mask |-> <<>>]
        ELSE IF inclusive
        THEN [err |-> "none", out |-> out, mask |-> <<>>]
        ELSE [err |-> "none", out |-> Masked(out, mask), mask |-> mask]

\* line 108: inclusive = rhs_y_index.numel() <= self.rhs_sample_size
InclusiveY(y, k) == Len(y) <= k

\* Mutant: the relocated required entries are not counted.
InclusiveIdgnnAlone(y_relocated, idgnn, k) == Len(idgnn) <= k

\* lines 114-115: inclusive = (rhs_y_index.numel() + rhs_idgnn_index.numel()
\*                            <= self.rhs_sample_size), rhs_y_index relocated
InclusiveIdgnn(y_relocated, idgnn, k) == Len(y_relocated) + Len(idgnn) <= k

NoCall == [rhs_idgnn_index |-> <<>>, lhs_idgnn_batch |-> <<>>,
           rhs_gnn_embedding |-> <<>>, lhs_y_batch |-> <<>>, rhs_y_index |-> <<>>]

NoLoc == [line |-> 0, rhs_index |-> <<>>, inclusive_y |-> FALSE,
          mask_y |-> <<>>, inclusive_idgnn |-> FALSE, mask_idgnn |-> <<>>]

NoRet == [rhs_idgnn_index |-> <<>>, rhs_index |-> <<>>, lhs_idgnn_batch |-> <<>>,
          rhs_gnn_embedding |-> <<>>, lhs_y_batch |-> <<>>, rhs_y_index |-> <<>>]

\* line 100-107: every rhs_index the draw and topk's tie order can produce
SampleRhsIndex(idgnn, y, k) ==
    LET drawn == {Priorities(rnd, idgnn, y) : rnd \in [Cands -> RandVals]}
    IN UNION {TopK(a, Cands, k) : a \in drawn}

\* The GNN's embedding of the sparse entry (row, id): the GNN is a black box
\* to sample_step, which only carries its rows along.
GnnEmbedding(row, id) == row * (2 * NumRhs + 2) + id + NumRhs + 1

\* The seed rows of n entries.  sample_step never reads the rows it is handed
\* (lhs_y_batch, lhs_idgnn_batch), it only selects them by mask, so each entry
\* is put in a seed row of its own: rows 0, 1, ... in batch order.
OwnRows(n) == [i \in 1 .. n |-> i - 1]

\* ContextGNN.sample_step, lines 98-122, on arguments whose ids lie in Dom.
\* forward_sample_softmax passes parallel arrays: the positives as (row, id)
\* pairs in batch order, the sparse entries one per (row, id).
SampleStep(Dom) ==
    /\ pc = "idle"
    /\ UNCHANGED <<mainVars, rhs_sample_size, fuserVars, driverVars>>
    /\ \E yi \in SeqsUpTo(Dom, MaxLen), ii \in SeqsUpTo(Dom, MaxLen) :
         IF \E i \in DOMAIN ii : ~IndexOk(ii[i], NumRhs)
         THEN \* line 102 raises
              /\ pc' = "raised"
              /\ loc' = [NoLoc EXCEPT !.line = 102]
              /\ ret' = NoRet
              /\ call' = [NoCall EXCEPT !.rhs_idgnn_index = ii, !.rhs_y_index = yi]
         ELSE IF \E i \in DOMAIN yi : ~IndexOk(yi[i], NumRhs)
         THEN \* line 106 raises
              /\ pc' = "raised"
              /\ loc' = [NoLoc EXCEPT !.line = 106]
              /\ ret' = NoRet
              /\ call' = [NoCall EXCEPT !.rhs_idgnn_index = ii, !.rhs_y_index = yi]
         ELSE
           \E rhs_index \in SampleRhsIndex(ii, yi, rhs_sample_size) :
             LET inc1 == InclusiveY(yi, rhs_sample_size)
             IN
             \E g1 \in [UninitRead(yi, rhs_index, NumRhs, inc1) -> GarbageVals] :
               LET m1 == MapIndex(yi, rhs_index, NumRhs, inc1, g1)
                   inc2 == InclusiveIdgnn(m1.out, ii, rhs_sample_size)
                   mx == DefaultMaxIndex(ii, rhs_index)
               IN
               \E g2 \in [IF Len(ii) = 0 THEN {}
                          ELSE UninitRead(ii, rhs_index, mx, inc2) -> GarbageVals] :
                 LET m2 == IF Len(ii) = 0
                           THEN \* line 116: src.max() of an empty tensor raises
                                [err |-> "RuntimeError", out |-> <<>>, mask |-> <<>>]
                           ELSE MapIndex(ii, rhs_index, mx, inc2, g2)
                 IN
                 LET yb == OwnRows(Len(yi))
                     ib == OwnRows(Len(ii))
                     ge == [i \in 1 .. Len(ii) |-> GnnEmbedding(ib[i], ii[i])]
                 IN
                   /\ call' = [rhs_idgnn_index |-> ii, lhs_idgnn_batch |-> ib,
                               rhs_gnn_embedding |-> ge, lhs_y_batch |-> yb,
                               rhs_y_index |-> yi]
                   /\ loc' = [line |-> IF m2.err = "none" THEN 122 ELSE 116,
                              rhs_index |-> rhs_index,
                              inclusive_y |-> inc1, mask_y |-> m1.mask,
                              inclusive_idgnn |-> inc2, mask_idgnn |-> m2.mask]
                   /\ IF m2.err # "none"
                      THEN /\ pc' = "raised"
                           /\ ret' = NoRet
                      ELSE /\ pc' = "returned"
                           /\ ret' = [rhs_idgnn_index |-> m2.out,
                                      rhs_index |-> rhs_index,
                                      lhs_idgnn_batch |->
                                          IF inc2 THEN ib ELSE Masked(ib, m2.mask),
                                      rhs_gnn_embedding |->
                                          IF inc2 THEN ge ELSE Masked(ge, m2.mask),
                                      lhs_y_batch |->
                                          IF inc1 THEN yb ELSE Masked(yb, m1.mask),
                                      rhs_y_index |-> m1.out]

\* forward_sample_softmax returned (or raised): the batch's tensors are dropped
\* and the next batch starts from the model alone.
NextBatch ==
    /\ pc \in {"returned", "raised"}
    /\ pc' = "idle"
    /\ call' = NoCall
    /\ loc' = NoLoc
    /\ ret' = NoRet
    /\ UNCHANGED <<mainVars, rhs_sample_size, fuserVars, driverVars>>

\* The parts of the state a specification does not exercise
SamplerOff ==
    /\ rhs_sample_size = 0
    /\ pc = "off"
    /\ call = NoCall
    /\ loc = NoLoc
    /\ ret = NoRet

FuserOff ==
    /\ theta = <<>>
    /\ fpc = "off"
    /\ fwd = <<>>

DriverOff ==
    /\ rowptr = <<>>
    /\ col = <<>>
    /\ dpc = "off"
    /\ drv = <<>>

\* `model` before main has built one
NoModel == [run |-> "none", epoch |-> 0]

MainOff ==
    /\ epochs = 0
    /\ mpc = "off"
    /\ epoch = 0
    /\ best_val_map = 0
    /\ val_maps = <<>>
    /\ model = NoModel
    /\ model_file = <<>>

\* ContextGNN.__init__: rhs_sample_size is an argument, at most num_rhs_nodes
Init ==
    /\ rhs_sample_size \in 1 .. NumRhs
    /\ pc = "idle"
    /\ call = NoCall
    /\ loc = NoLoc
    /\ ret = NoRet
    /\ FuserOff
    /\ DriverOff
    /\ MainOff

Next == SampleStep(Cands) \/ NextBatch

Spec == Init /\ [][Next]_vars

\* Ids handed to sample_step when the caller's data is broken: the catalog plus
\* one id that wraps (-1), one past the end and one below -num_rhs_nodes.
OorIds == Cands \cup {-1, NumRhs, 0 - (NumRhs + 1)}

NextOor == SampleStep(OorIds) \/ NextBatch

SpecOor == Init /\ [][NextOor]_vars

(* ---------------------- forward / construct_logits --------------------- *)
\* torch.nn.Linear on one channel, p = <<weight, bias>>
Linear(p, x) == p[1] * x + p[2]

\* Parameter settings the model may hold: lhs_projector, the two offset
\* layers, the one-layer head, and the rhs embedding table (one channel).
Thetas ==
    {[lhs_projector |-> <<1, 0>>, lin_offset_embgnn |-> <<1, 1>>,
      lin_offset_idgnn |-> <<2, 0>>, head |-> <<1, 2>>,
      rhs_embedding |-> [c \in Cands |-> c + 1]],
     [lhs_projector |-> <<2, 1>>, lin_offset_embgnn |-> <<0, 3>>,
      lin_offset_idgnn |-> <<1, 3>>, head |-> <<3, 0>>,
      rhs_embedding |-> [c \in Cands |-> c % 2]]}

\* Mutant: the sparse scores are added to the dense cells (accumulate=True).
ConstructLogitsAccumulate(lhs_embedding_projected, lhs_embedding, rhs_gnn_embedding, rhs_embedding, lhs_idgnn_batch, rhs_idgnn_index) ==
    LET embgnn_logits ==
            [r \in DOMAIN lhs_embedding_projected |->
                [c \in DOMAIN rhs_embedding |->
                    lhs_embedding_projected[r] * rhs_embedding[c]
                    + Linear(theta.lin_offset_embgnn, lhs_embedding_projected[r])]]
        idgnn_logits ==
            [k \in DOMAIN rhs_gnn_embedding |->
                Linear(theta.head, rhs_gnn_embedding[k])
                + lhs_embedding[lhs_idgnn_batch[k]] * rhs_gnn_embedding[k]
                + Linear(theta.lin_offset_idgnn,
                         lhs_embedding_projected[lhs_idgnn_batch[k]])]
        at(r, c) == {k \in DOMAIN rhs_idgnn_index :
                        lhs_idgnn_batch[k] = r /\ rhs_idgnn_index[k] = c}
    IN  [r \in DOMAIN lhs_embedding_projected |->
            [c \in DOMAIN rhs_embedding |->
                IF at(r, c) # {}
                THEN embgnn_logits[r][c] + idgnn_logits[SetMax(at(r, c))]
                ELSE embgnn_logits[r][c]]]

\* ContextGNN.construct_logits, lines 124-152, on one embedding channel.
\* lhs_* are indexed by seed row, rhs_embedding by column, the sparse arrays by
\* entry.  Line 151 is an index_put: with one entry per (row, column), as the
\* callers hand it, the cell takes that entry's value.
ConstructLogits(lhs_embedding_projected, lhs_embedding, rhs_gnn_embedding, rhs_embedding, lhs_idgnn_batch, rhs_idgnn_index) ==
    LET embgnn_logits ==
            [r \in DOMAIN lhs_embedding_projected |->
                [c \in DOMAIN rhs_embedding |->
                    lhs_embedding_projected[r] * rhs_embedding[c]
                    + Linear(theta.lin_offset_embgnn, lhs_embedding_projected[r])]]
        idgnn_logits ==
            [k \in DOMAIN rhs_gnn_embedding |->
                Linear(theta.head, rhs_gnn_embedding[k])
                + lhs_embedding[lhs_idgnn_batch[k]] * rhs_gnn_embedding[k]
                + Linear(theta.lin_offset_idgnn,
                         lhs_embedding_projected[lhs_idgnn_batch[k]])]
        at(r, c) == {k \in DOMAIN rhs_idgnn_index :
                        lhs_idgnn_batch[k] = r /\ rhs_idgnn_index[k] = c}
    IN  [r \in DOMAIN lhs_embedding_projected |->
            [c \in DOMAIN rhs_embedding |->
                IF at(r, c) # {}
                THEN idgnn_logits[SetMax(at(r, c))]
                ELSE embgnn_logits[r][c]]]

NoFwd == [lhs_embedding |-> <<>>, lhs_embedding_projected |-> <<>>,
          rhs_gnn_embedding |-> <<>>, lhs_idgnn_batch |-> <<>>,
          rhs_idgnn_index |-> <<>>, logits |-> <<>>]

\* ContextGNN.forward, lines 177-199: the GNN's outputs for the batch (one
\* embedding per seed row, one sparse entry per sampled (row, id)) scored
\* against the whole catalog.
Forward ==
    /\ fpc = "idle"
    /\ \E lhs_embedding \in [Rows -> Vals] :
       \E rhs_idgnn_index \in SeqsUpTo(Cands, MaxLen) :
       \E lhs_idgnn_batch \in [1 .. Len(rhs_idgnn_index) -> Rows],
          rhs_gnn_embedding \in [1 .. Len(rhs_idgnn_index) -> Vals] :
         LET lhs_embedding_projected ==
                 [r \in Rows |-> Linear(theta.lhs_projector, lhs_embedding[r])]
         IN
         /\ \A i \in DOMAIN rhs_idgnn_index : \A j \in DOMAIN rhs_idgnn_index :
               (rhs_idgnn_index[i] = rhs_idgnn_index[j]
                   /\ lhs_idgnn_batch[i] = lhs_idgnn_batch[j]) => i = j
         /\ fwd' = [lhs_embedding |-> lhs_embedding,
                    lhs_embedding_projected |-> lhs_embedding_projected,
                    rhs_gnn_embedding |-> rhs_gnn_embedding,
                    lhs_idgnn_batch |-> lhs_idgnn_batch,
                    rhs_idgnn_index |-> rhs_idgnn_index,
                    logits |-> ConstructLogits(lhs_embedding_projected,
                                   lhs_embedding, rhs_gnn_embedding,
                                   theta.rhs_embedding, lhs_idgnn_batch,
                                   rhs_idgnn_index)]
    /\ fpc' = "done"
    /\ UNCHANGED <<mainVars, theta, samplerVars, driverVars>>

\* the logits are handed to the loss; the next batch starts afresh
NextForward ==
    /\ fpc = "done"
    /\ fpc' = "idle"
    /\ fwd' = NoFwd
    /\ UNCHANGED <<mainVars, theta, samplerVars, driverVars>>

InitFuse ==
    /\ theta \in Thetas
    /\ fpc = "idle"
    /\ fwd = NoFwd
    /\ SamplerOff
    /\ DriverOff
    /\ MainOff

NextFuse == Forward \/ NextForward

SpecFuse == InitFuse /\ [][NextFuse]_vars

(* ------------------- get_rhs_index / train / test ---------------------- *)
\* t[i] of a tensor held as a sequence, i the program's 0-based index
At(t, i) == t[i + 1]

RECURSIVE SumTo(_, _)
\* count[0] + ... + count[i-1]
SumTo(count, i) == IF i = 0 THEN 0 ELSE SumTo(count, i - 1) + count[i]

\* the elements of a set of ids in increasing order (coalesce sorts a row)
RECURSIVE SortedSeq(_)
SortedSeq(S) ==
    IF S = {} THEN <<>>
    ELSE LET m == CHOOSE x \in S : \A y \in S : x <= y
         IN <<m>> \o SortedSeq(S \ {m})

RECURSIVE Concat(_, _)
\* rows[0] \o ... \o rows[n-1]
Concat(rows, n) == IF n = 0 THEN <<>> ELSE Concat(rows, n - 1) \o rows[n - 1]

\* load_data_dict: the CSR of the coalesced edges, nbrs[r] the destinations
\* of source row r, n the number of source rows
RowptrOf(nbrs, n) ==
    [i \in 1 .. (n + 1) |-> Len(Concat([r \in 0 .. (n - 1) |-> SortedSeq(nbrs[r])], i - 1))]

ColOf(nbrs, n) == Concat([r \in 0 .. (n - 1) |-> SortedSeq(nbrs[r])], n)

\* torch_frame's _batched_arange(count): ptr is the prefix sum of count, batch
\* repeats position i count[i] times, arange counts within each run.
BatchedArange(count) ==
    LET n == Len(count)
        ptr == [i \in 0 .. n |-> SumTo(count, i)]
        batch == [p \in 1 .. ptr[n] |->
                    CHOOSE i \in 0 .. (n - 1) : ptr[i] <= p - 1 /\ p - 1 < ptr[i + 1]]
        arange == [p \in 1 .. ptr[n] |-> (p - 1) - ptr[batch[p]]]
    IN [batch |-> batch, arange |-> arange]

\* Mutant: the offset within the row is dropped, every element reads the row's
\* first neighbour.
GetRhsIndexRowStart(src_index, rp, cl) ==
    LET count == [i \in DOMAIN src_index |->
                    At(rp, src_index[i] + 1) - At(rp, src_index[i])]
        ba == BatchedArange(count)
    IN [src_batch |-> ba.batch,
        dst_index |-> [p \in DOMAIN ba.batch |->
                          At(cl, At(rp, At(src_index, ba.batch[p])))]]

\* get_rhs_index(src_index, rowptr, col), lines 165-173
GetRhsIndex(src_index, rp, cl) ==
    LET count == [i \in DOMAIN src_index |->
                    At(rp, src_index[i] + 1) - At(rp, src_index[i])]
        ba == BatchedArange(count)
    IN [src_batch |-> ba.batch,
        dst_index |-> [p \in DOMAIN ba.batch |->
                          At(cl, ba.arange[p] + At(rp, At(src_index, ba.batch[p])))]]

\* N = len(rowptr) - 1
NumSrc == Len(rowptr) - 1

SrcRows == 0 .. (NumSrc - 1)

\* One call of get_rhs_index on any selection of rows of the split: rows may
\* repeat and may have no neighbour.
Expand ==
    /\ dpc = "idle"
    /\ \E src_index \in SeqsUpTo(SrcRows, MaxLen) :
         LET e == GetRhsIndex(src_index, rowptr, col)
         IN drv' = [src_index |-> src_index, src_batch |-> e.src_batch,
                    dst_index |-> e.dst_index]
    /\ dpc' = "expanded"
    /\ UNCHANGED <<mainVars, rowptr, col, samplerVars, fuserVars>>

ExpandReturn ==
    /\ dpc = "expanded"
    /\ dpc' = "idle"
    /\ drv' = <<>>
    /\ UNCHANGED <<mainVars, rowptr, col, samplerVars, fuserVars>>

\* load_data_dict, lines 241-263: a split with up to MaxSrc source rows
InitCsr ==
    /\ \E n \in 0 .. MaxSrc : \E nbrs \in [0 .. (n - 1) -> SUBSET Cands] :
          /\ rowptr = RowptrOf(nbrs, n)
          /\ col = ColOf(nbrs, n)
    /\ dpc = "idle"
    /\ drv = <<>>
    /\ SamplerOff
    /\ FuserOff
    /\ MainOff

NextCsr == Expand \/ ExpandReturn

SpecCsr == InitCsr /\ [][NextCsr]_vars

\* The loss of one optimisation step, as far as the loop sees it.
LossVals == {1, 2}

\* idxlist[start:end], end = min(start + batch_size, N)
Chunk(idxlist, start, batch_size) ==
    LET end == IF start + batch_size < Len(idxlist) THEN start + batch_size
               ELSE Len(idxlist)
    IN [i \in 1 .. (end - start) |-> idxlist[start + i]]

Shuffles(S) ==
    {f \in [1 .. Cardinality(S) -> S] : \A i, j \in DOMAIN f : f[i] = f[j] => i = j}

\* train, lines 124-131: np.random.shuffle(idxlist), accum_loss = 0
TrainStart ==
    /\ dpc = "idle"
    /\ \E idxlist \in Shuffles(SrcRows), batch_size \in 1 .. MaxSrc :
         drv' = [fn |-> "train", idxlist |-> idxlist, batch_size |-> batch_size,
                 start |-> 0, accum_loss |-> 0, pred_list |-> <<>>,
                 eval_rows |-> {}, iterations |-> 0,
                 src_index |-> <<>>, dst_index |-> <<>>,
                 skipped |-> FALSE, model_ran |-> FALSE, result |-> "none"]
    /\ dpc' = "loop"
    /\ UNCHANGED <<mainVars, rowptr, col, samplerVars, fuserVars>>

\* train, lines 132-161: one iteration of the batch loop
TrainBatch ==
    /\ dpc = "loop" /\ drv.fn = "train"
    /\ drv.start < NumSrc
    /\ \E loss \in LossVals :
         LET src_index == Chunk(drv.idxlist, drv.start, drv.batch_size)
             e == GetRhsIndex(src_index, rowptr, col)
         IN drv' = [drv EXCEPT !.start = @ + drv.batch_size,
                               !.iterations = @ + 1,
                               !.src_index = src_index,
                               !.dst_index = e.dst_index,
                               !.skipped = FALSE,
                               !.model_ran = TRUE,
                               !.accum_loss = @ + loss]
    /\ UNCHANGED <<mainVars, dpc, rowptr, col, samplerVars, fuserVars>>

\* train, line 162: return float(accum_loss / N); a float tensor divided by
\* zero is nan, nothing is raised
TrainReturn ==
    /\ dpc = "loop" /\ drv.fn = "train"
    /\ drv.start >= NumSrc
    /\ drv' = [drv EXCEPT !.result =
                  IF NumSrc = 0 THEN [value |-> "nan", divisor |-> NumSrc]
                  ELSE [value |-> <<drv.accum_loss, NumSrc>>, divisor |-> NumSrc]]
    /\ dpc' = "done"
    /\ UNCHANGED <<mainVars, rowptr, col, samplerVars, fuserVars>>

\* test, lines 185-209: eval_rows are the rows of test_edge_index[0]
TestStart ==
    /\ dpc = "idle"
    /\ \E eval_rows \in SUBSET SrcRows, batch_size \in 1 .. MaxSrc :
         drv' = [fn |-> "test", idxlist |-> [i \in 1 .. NumSrc |-> i - 1],
                 batch_size |-> batch_size,
                 start |-> 0, accum_loss |-> 0, pred_list |-> <<>>,
                 eval_rows |-> eval_rows, iterations |-> 0,
                 src_index |-> <<>>, dst_index |-> <<>>,
                 skipped |-> FALSE, model_ran |-> FALSE, result |-> "none"]
    /\ dpc' = "loop"
    /\ UNCHANGED <<mainVars, rowptr, col, samplerVars, fuserVars>>

\* test, lines 210-233: one iteration; an empty selection is skipped (219-220)
TestBatch ==
    /\ dpc = "loop" /\ drv.fn = "test"
    /\ drv.start < NumSrc
    /\ LET chunk == Chunk(drv.idxlist, drv.start, drv.batch_size)
           src_index == SelectSeq(chunk, LAMBDA r : r \in drv.eval_rows)
           e == GetRhsIndex(src_index, rowptr, col)
       IN IF Len(src_index) = 0
          THEN drv' = [drv EXCEPT !.start = @ + drv.batch_size,
                                  !.iterations = @ + 1,
                                  !.src_index = src_index,
                                  !.dst_index = <<>>,
                                  !.skipped = TRUE,
                                  !.model_ran = FALSE]
          ELSE drv' = [drv EXCEPT !.start = @ + drv.batch_size,
                                  !.iterations = @ + 1,
                                  !.src_index = src_index,
                                  !.dst_index = e.dst_index,
                                  !.skipped = FALSE,
                                  !.model_ran = TRUE,
                                  !.pred_list = Append(@, Len(src_index))]
    /\ UNCHANGED <<mainVars, dpc, rowptr, col, samplerVars, fuserVars>>

\* test, lines 235-238: torch.cat of an empty pred_list raises RuntimeError
TestReturn ==
    /\ dpc = "loop" /\ drv.fn = "test"
    /\ drv.start >= NumSrc
    /\ drv' = [drv EXCEPT !.result =
                  IF Len(drv.pred_list) = 0
                  THEN [value |-> "RuntimeError", divisor |-> 1]
                  ELSE [value |-> "map", divisor |-> 1]]
    /\ dpc' = "done"
    /\ UNCHANGED <<mainVars, rowptr, col, samplerVars, fuserVars>>

NextDriver == TrainStart \/ TrainBatch \/ TrainReturn
              \/ TestStart \/ TestBatch \/ TestReturn

SpecDriver == InitCsr /\ [][NextDriver]_vars

(* ------------------------------- main ---------------------------------- *)
\* the largest --epochs handed to a run, past MIN_EPOCHS
MaxEpochs == 12

\* MIN_EPOCHS, line 23; VAL_MAP_ATOL = 0.001 (line 21) in the units of val_map
MIN_EPOCHS == 10

VAL_MAP_ATOL == 1

\* The validation MAP that test returns, in units of 0.001: nothing right, a
\* value within the tolerance of the next, and values further apart.
ValMapVals == {0, 1, 3}

\* The model this run trains, after n epochs of train
Trained(n) == [run |-> "this", epoch |-> n]

\* What model_filename holds when main starts: nothing, or the checkpoint that
\* an earlier run of the same dataset and task left there.
StartFiles == {<<>>, <<[run |-> "earlier", epoch |-> 1]>>}

\* lines 323-325: a strictly better val_map moves best_val_map
BestAfter(best, val_map) == IF val_map > best THEN val_map ELSE best

\* lines 323-325: ... and overwrites the checkpoint with the current model
FileAfter(file, best, val_map, m) == IF val_map > best THEN <<m>> ELSE file

\* lines 332-333: the early-stopping test of one epoch
ShouldStop(e, val_map, best) ==
    e > MIN_EPOCHS /\ val_map < best - VAL_MAP_ATOL

\* lines 267-304: arguments parsed, model and optimizer built; a run of at
\* least one epoch
InitMain ==
    /\ epochs \in 1 .. MaxEpochs
    /\ mpc = "loop"
    /\ epoch = 0
    /\ best_val_map = 0
    /\ val_maps = <<>>
    /\ model = Trained(0)
    /\ model_file \in StartFiles
    /\ SamplerOff
    /\ FuserOff
    /\ DriverOff

\* lines 305-335: one iteration of the epoch loop
MainEpoch ==
    /\ mpc = "loop"
    /\ epoch < epochs
    /\ \E val_map \in ValMapVals :
         LET e == epoch + 1
             m == Trained(model.epoch + 1)
             best == BestAfter(best_val_map, val_map)
         IN /\ epoch' = e
            /\ model' = m
            /\ val_maps' = Append(val_maps, val_map)
            /\ best_val_map' = best
            /\ model_file' = FileAfter(model_file, best_val_map, val_map, m)
            /\ mpc' = IF ShouldStop(e, val_map, best) THEN "stopped" ELSE "loop"
    /\ UNCHANGED <<epochs, samplerVars, fuserVars, driverVars>>

\* line 305: range(1, args.epochs + 1) is used up
MainExhausted ==
    /\ mpc = "loop"
    /\ epoch >= epochs
    /\ mpc' = "exhausted"
    /\ UNCHANGED <<epochs, epoch, best_val_map, val_maps, model, model_file,
                   samplerVars, fuserVars, driverVars>>

\* lines 337-346: torch.load(model_filename), then test on the test split
MainLoad ==
    /\ mpc \in {"stopped", "exhausted"}
    /\ IF model_file = <<>>
       THEN \* FileNotFoundError
            /\ mpc' = "raised"
            /\ model' = model
       ELSE /\ mpc' = "tested"
            /\ model' = model_file[1]
    /\ UNCHANGED <<epochs, epoch, best_val_map, val_maps, model_file,
                   samplerVars, fuserVars, driverVars>>

NextMain == MainEpoch \/ MainExhausted \/ MainLoad

SpecMain == InitMain /\ [][NextMain]_vars

(* ------------------------------ claims --------------------------------- *)
\* line 107 has run: rhs_index holds the sampled candidates
Sampled == pc # "idle" /\ loc.line >= 116

Returned == pc = "returned"

RequiredSet == Range(call.rhs_y_index)

PrioritySet == Range(call.rhs_idgnn_index)

SampledSet == Range(loc.rhs_index)

\* the positions of dst_index that belong to position i of the selection
BatchPositions(i) == {p \in DOMAIN drv.src_batch : drv.src_batch[p] = i}

\* col[rowptr[r] : rowptr[r + 1]]
RowSlice(r) ==
    [j \in 1 .. (At(rowptr, r + 1) - At(rowptr, r)) |-> col[At(rowptr, r) + j]]

\* the subsequence of t at the positions P, in order
SubSeqAt(t, P) == Masked(t, [p \in DOMAIN t |-> p \in P])

\* C1: get_rhs_index returns src_batch and dst_index of equal length, the sum
\* of the selected rows' degrees, and the elements of dst_index tagged with
\* position i are row src_index[i]'s slice of col in order; a row without
\* neighbours contributes nothing and its position is not in src_batch.
C1_ExpandMatchesCsr ==
    dpc = "expanded" =>
        /\ Len(drv.src_batch) = Len(drv.dst_index)
        /\ Len(drv.dst_index)
              = SumTo([i \in DOMAIN drv.src_index |->
                          Len(RowSlice(drv.src_index[i]))], Len(drv.src_index))
        /\ \A i \in DOMAIN drv.src_index :
              /\ SubSeqAt(drv.dst_index, BatchPositions(i - 1))
                    = RowSlice(drv.src_index[i])
              /\ Len(RowSlice(drv.src_index[i])) = 0 => BatchPositions(i - 1) = {}
        /\ \A p \in DOMAIN drv.src_batch : drv.src_batch[p] + 1 \in DOMAIN drv.src_index

\* a selection that repeats a row with two neighbours and holds a row with none
C1_Witness ==
    /\ dpc = "expanded"
    /\ Len(drv.src_index) = MaxLen
    /\ \E i \in DOMAIN drv.src_index : Len(RowSlice(drv.src_index[i])) = 0
    /\ \E i \in DOMAIN drv.src_index : Len(RowSlice(drv.src_index[i])) >= 2
    /\ drv.src_index[1] # 0
    /\ Len(drv.dst_index) >= 2

\* C2: whenever sample_step has sampled (rhs_sample_size <= num_rhs_nodes),
\* rhs_index holds exactly rhs_sample_size pairwise distinct ids of the catalog,
\* whatever the draw and the required and priority ids.
C2_ExactlyKDistinct ==
    Sampled =>
        /\ Len(loc.rhs_index) = rhs_sample_size
        /\ \A p \in DOMAIN loc.rhs_index : \A q \in DOMAIN loc.rhs_index :
              loc.rhs_index[p] = loc.rhs_index[q] => p = q
        /\ SampledSet \subseteq Cands

C2_Witness ==
    /\ Sampled
    /\ rhs_sample_size = 2
    /\ Cardinality(RequiredSet \cup PrioritySet) > rhs_sample_size
    /\ Cardinality(SampledSet) = 2

\* C3: when the distinct required ids number at most rhs_sample_size, every
\* required id is in rhs_index, however many priority ids there are.
C3_RequiredIncluded ==
    (Sampled /\ Cardinality(RequiredSet) <= rhs_sample_size)
        => RequiredSet \subseteq SampledSet

C3_Witness ==
    /\ Sampled
    /\ Cardinality(RequiredSet) = rhs_sample_size
    /\ PrioritySet \ RequiredSet # {}
    /\ RequiredSet \cap PrioritySet # {}
    /\ RequiredSet \subseteq SampledSet

\* C4: when required and priority ids together have at most rhs_sample_size
\* distinct elements, rhs_index contains all of them.
C4_BothIncludedWhenFit ==
    (Sampled /\ Cardinality(RequiredSet \cup PrioritySet) <= rhs_sample_size)
        => (RequiredSet \cup PrioritySet) \subseteq SampledSet

C4_Witness ==
    /\ Sampled
    /\ RequiredSet # {}
    /\ PrioritySet \ RequiredSet # {}
    /\ Cardinality(RequiredSet \cup PrioritySet) = rhs_sample_size
    /\ rhs_sample_size < NumRhs
    /\ (RequiredSet \cup PrioritySet) = SampledSet

\* required > priority-only > neither; an id in both sets counts as required
Tier(c) == IF c \in RequiredSet THEN 2 ELSE IF c \in PrioritySet THEN 1 ELSE 0

\* C5: no candidate is left out of rhs_index while a candidate of a strictly
\* lower tier is in it.
C5_TierOrder ==
    Sampled =>
        \A c \in Cands : \A d \in Cands :
            (c \in SampledSet /\ d \notin SampledSet) => Tier(d) <= Tier(c)

\* the budget overflows: a priority-only id is dropped, an id of both sets stays
C5_Witness ==
    /\ Sampled
    /\ Cardinality(RequiredSet \cup PrioritySet) > rhs_sample_size
    /\ \E c \in RequiredSet \cap PrioritySet : c \in SampledSet
    /\ \E d \in PrioritySet \ RequiredSet : d \notin SampledSet

\* The entries of src that map_index kept, and where entry i went
Kept(inclusive, mask, i) == inclusive \/ mask[i]

RankOf(inclusive, mask, i) == Cardinality({j \in 1 .. i : Kept(inclusive, mask, j)})

RoundTrip(src, out, inclusive, mask, index) ==
    /\ Len(out) = Cardinality({i \in DOMAIN src : Kept(inclusive, mask, i)})
    /\ \A i \in DOMAIN src :
          IF src[i] \in Range(index)
          THEN /\ Kept(inclusive, mask, i)
               /\ out[RankOf(inclusive, mask, i)] \in 0 .. (Len(index) - 1)
               /\ index[out[RankOf(inclusive, mask, i)] + 1] = src[i]
          ELSE (~inclusive) => ~mask[i]

\* C6: in what sample_step returns, an input id at position p of rhs_index is
\* relocated to exactly p, and on the masked path an id that is not in
\* rhs_index has mask false and no entry in the output.
C6_RemapRoundTrip ==
    Returned =>
        /\ RoundTrip(call.rhs_y_index, ret.rhs_y_index, loc.inclusive_y,
                     loc.mask_y, loc.rhs_index)
        /\ RoundTrip(call.rhs_idgnn_index, ret.rhs_idgnn_index,
                     loc.inclusive_idgnn, loc.mask_idgnn, loc.rhs_index)

C6_Witness ==
    /\ Returned
    /\ RequiredSet # {}
    /\ ~loc.inclusive_idgnn
    /\ \E i \in DOMAIN call.rhs_idgnn_index : ~loc.mask_idgnn[i]
    /\ \E j \in DOMAIN ret.rhs_idgnn_index : ret.rhs_idgnn_index[j] > 0

\* the dense bilinear score of a cell and the dense per-row offset
DenseScore(r, c) == fwd.lhs_embedding_projected[r] * theta.rhs_embedding[c]

DenseOffset(r) == Linear(theta.lin_offset_embgnn, fwd.lhs_embedding_projected[r])

\* the sparse score of entry k and the sparse per-row offset
SparseScore(k) ==
    Linear(theta.head, fwd.rhs_gnn_embedding[k])
    + fwd.lhs_embedding[fwd.lhs_idgnn_batch[k]] * fwd.rhs_gnn_embedding[k]

SparseOffset(r) == Linear(theta.lin_offset_idgnn, fwd.lhs_embedding_projected[r])

SparseCell(r, c) ==
    \E k \in DOMAIN fwd.rhs_idgnn_index :
        fwd.lhs_idgnn_batch[k] = r /\ fwd.rhs_idgnn_index[k] = c

\* C7: the logits are a batchSize x numColumns matrix; the cell of every
\* sparse entry holds that entry's sparse score plus the sparse offset of its
\* row, every other cell the dense score plus the dense offset of its row.
C7_SparseOverwritesDense ==
    fpc = "done" =>
        /\ DOMAIN fwd.logits = Rows
        /\ \A r \in Rows : DOMAIN fwd.logits[r] = Cands
        /\ \A k \in DOMAIN fwd.rhs_idgnn_index :
              fwd.logits[fwd.lhs_idgnn_batch[k]][fwd.rhs_idgnn_index[k]]
                  = SparseScore(k) + SparseOffset(fwd.lhs_idgnn_batch[k])
        /\ \A r \in Rows : \A c \in Cands :
              ~SparseCell(r, c) =>
                  fwd.logits[r][c] = DenseScore(r, c) + DenseOffset(r)

\* a sparse entry whose score differs from the dense one of its cell, next to
\* a row without any sparse entry
C7_Witness ==
    /\ fpc = "done"
    /\ \E k \in DOMAIN fwd.rhs_idgnn_index :
          LET r == fwd.lhs_idgnn_batch[k]
              c == fwd.rhs_idgnn_index[k]
          IN /\ SparseScore(k) + SparseOffset(r) # DenseScore(r, c) + DenseOffset(r)
             /\ fwd.logits[r][c] = SparseScore(k) + SparseOffset(r)
    /\ \E r \in Rows : \A c \in Cands :
          /\ ~SparseCell(r, c)
          /\ fwd.logits[r][c] = DenseScore(r, c) + DenseOffset(r)

\* C8: a required or priority id outside [0, num_rhs_nodes) makes sample_step
\* raise; it never returns for such a call.
C8_OutOfRangeAborts ==
    (pc # "idle" /\ ~((RequiredSet \cup PrioritySet) \subseteq Cands))
        => pc = "raised"

\* C9: in train and test a batch with no source row or no neighbour pair is
\* skipped without running the model, nothing is raised, and the average never
\* divides by zero.
C9_EmptySelectionNoOp ==
    /\ (dpc \in {"loop", "done"} /\ drv.iterations > 0
            /\ (Len(drv.src_index) = 0 \/ Len(drv.dst_index) = 0))
          => ~drv.model_ran
    /\ dpc = "done" =>
          /\ drv.result.value # "RuntimeError"
          /\ drv.result.divisor # 0

\* C10: an inclusive flag is true only when every id of that remap is in
\* rhs_index: the first for the required ids, the second for the priority ids.
C10_InclusiveOnlyWhenTotal ==
    Sampled =>
        /\ loc.inclusive_y => RequiredSet \subseteq SampledSet
        /\ loc.inclusive_idgnn => PrioritySet \subseteq SampledSet

\* both flags true on a call with required and priority-only ids
C10_Witness ==
    /\ Returned
    /\ loc.inclusive_y /\ loc.inclusive_idgnn
    /\ RequiredSet # {} /\ PrioritySet \ RequiredSet # {}

\* where the sampled id c sits in rhs_index (0-based)
PositionOf(c) == (CHOOSE p \in DOMAIN loc.rhs_index : loc.rhs_index[p] = c) - 1

\* the entries of an input id array whose id was sampled
SampledEntries(ids) == {i \in DOMAIN ids : ids[i] \in SampledSet}

\* the ids of those entries, in input order, each replaced by its position
Relocated(ids) ==
    LET kept == SubSeqAt(ids, SampledEntries(ids))
    IN [j \in DOMAIN kept |-> PositionOf(kept[j])]

\* C11: whenever sample_step returns, budget overflow included, lhs_y_batch and
\* rhs_y_index are the input (row, required id) pairs whose id was sampled, in
\* input order, the id replaced by its position; lhs_idgnn_batch,
\* rhs_gnn_embedding and rhs_idgnn_index are the input sparse entries whose id
\* was sampled, in input order; and every returned position lies in
\* [0, rhs_sample_size), the number of rows of the returned rhs_embedding.
C11_ReturnedArraysAligned ==
    Returned =>
        /\ Len(ret.lhs_y_batch) = Len(ret.rhs_y_index)
        /\ ret.lhs_y_batch
              = SubSeqAt(call.lhs_y_batch, SampledEntries(call.rhs_y_index))
        /\ ret.rhs_y_index = Relocated(call.rhs_y_index)
        /\ Len(ret.lhs_idgnn_batch) = Len(ret.rhs_idgnn_index)
        /\ Len(ret.rhs_gnn_embedding) = Len(ret.rhs_idgnn_index)
        /\ ret.lhs_idgnn_batch
              = SubSeqAt(call.lhs_idgnn_batch, SampledEntries(call.rhs_idgnn_index))
        /\ ret.rhs_gnn_embedding
              = SubSeqAt(call.rhs_gnn_embedding, SampledEntries(call.rhs_idgnn_index))
        /\ ret.rhs_idgnn_index = Relocated(call.rhs_idgnn_index)
        /\ Len(ret.rhs_index) = rhs_sample_size
        /\ \A j \in DOMAIN ret.rhs_y_index :
              ret.rhs_y_index[j] \in 0 .. (rhs_sample_size - 1)
        /\ \A j \in DOMAIN ret.rhs_idgnn_index :
              ret.rhs_idgnn_index[j] \in 0 .. (rhs_sample_size - 1)

\* the budget overflows on both remaps: a required pair and a sparse entry are
\* dropped, and a later-row sparse entry is kept
C11_Witness ==
    /\ Returned
    /\ ~loc.inclusive_y /\ ~loc.inclusive_idgnn
    /\ 0 < Len(ret.rhs_y_index) /\ Len(ret.rhs_y_index) < Len(call.rhs_y_index)
    /\ 0 < Len(ret.rhs_idgnn_index)
    /\ Len(ret.rhs_idgnn_index) < Len(call.rhs_idgnn_index)
    /\ ret.lhs_idgnn_batch[1] > 0
    /\ ret.lhs_y_batch = SubSeqAt(call.lhs_y_batch, SampledEntries(call.rhs_y_index))

\* C12: when the epoch loop has ended and the checkpoint is loaded, a
\* checkpoint was saved during this run and the loaded model is the model as it
\* was at the end of the epoch whose val_map equals best_val_map; early
\* stopping never happens at an epoch <= MIN_EPOCHS; best_val_map never
\* decreases.
C12_BestCheckpointLoaded ==
    /\ [](mpc \in {"tested", "raised"} =>
            /\ mpc = "tested"
            /\ model.run = "this"
            /\ model.epoch \in DOMAIN val_maps
            /\ val_maps[model.epoch] = best_val_map)
    /\ [](mpc = "stopped" => epoch > MIN_EPOCHS)
    /\ [][best_val_map' >= best_val_map]_vars


====
